---- MODULE Spec2Model ----
(***************************************************************************)
(* JS-CAD: the JSCAD execution and mesh conversion pipeline                *)
(* (utils/jscadExecutor: executeJSCAD, convertToThreeGeometry,             *)
(* createFallbackGeometry), the ModelViewer component that consumes it,    *)
(* and the chat side that produces program texts (Chat, App, useLLM,       *)
(* LLMService).                                                            *)
(*                                                                         *)
(* Six specifications share the variables:                                 *)
(*   CompileSpec  convertToThreeGeometry applied to bounded solids         *)
(*   ExecSpec     executeJSCAD applied to bounded program texts            *)
(*   Spec         ModelViewer's effect and its awaited continuations       *)
(*   SessionSpec  executeJSCAD called on one program text after another    *)
(*   ChatSpec     Chat submissions, useLLM.generateModel and App's handler *)
(*   ServiceSpec  LLMService.generateModel applied to bounded requests     *)
(***************************************************************************)
EXTENDS Integers, Sequences, FiniteSets, TLC

VARIABLES
    jscadGeometry,  \* CompileSpec: the value handed to convertToThreeGeometry
    lastInput,      \* CompileSpec: the value compiled by the latest call
    result,         \* CompileSpec: what the latest call returned
    first,          \* CompileSpec: what the first call on jscadGeometry returned
    code,           \* ExecSpec: the program text handed to executeJSCAD
    outcome,        \* ExecSpec: the settled promise of executeJSCAD(code)
    model,          \* Spec: ModelViewer's model prop
    geometry,       \* Spec: ModelViewer's geometry state
    error,          \* Spec: ModelViewer's error state
    pending,        \* Spec: awaited executeJSCAD promises, in microtask order
    table,          \* SessionSpec: the function members of jscad still in place
    session,        \* SessionSpec: the latest program run and its settled promise
    input,          \* ChatSpec: Chat's input state
    isLoading,      \* ChatSpec: useLLM's isLoading state
    inFlight,       \* ChatSpec: prompts of the generateModel calls awaiting the service
    messages,       \* ChatSpec: App's messages state, by role
    currentModel,   \* ChatSpec: App's currentModel state
    lastSubmit,     \* ChatSpec: what the latest handleSubmit did
    request,        \* ServiceSpec: configuration, prompt and provider behaviour
    response        \* ServiceSpec: the settled promise of generateModel

sessionVars == <<table, session>>

chatVars == <<input, isLoading, inFlight, messages, currentModel, lastSubmit>>

serviceVars == <<request, response>>

vars == <<jscadGeometry, lastInput, result, first, code, outcome,
          model, geometry, error, pending, sessionVars, chatVars, serviceVars>>

(***************************************************************************)
(* Bounds                                                                  *)
(***************************************************************************)
MaxPolys == 2

MaxPts == 4

MaxPending == 2

MaxInput == 2

MaxMessages == 4

(***************************************************************************)
(* Numbers.  Positions are small integers.  A normal component is          *)
(* n / sqrt(r), kept exact as the record [n, r]; r = 1 is the integer n.   *)
(***************************************************************************)
Num(k) == [n |-> k, r |-> 1]

ISqrt(k) == CHOOSE s \in 0..k : s * s <= k /\ k < (s + 1) * (s + 1)

\* k / Math.sqrt(len2), for len2 > 0
DivSqrt(k, len2) ==
    LET s == ISqrt(len2) IN
    IF k = 0 THEN Num(0)
    ELSE IF s * s = len2 /\ k % s = 0 THEN Num(k \div s)
    ELSE [n |-> k, r |-> len2]

\* new Float32Array([x]) for an integer x: exact up to 2^24, else rounded to even
Float32(x) ==
    IF -16777216 <= x /\ x <= 16777216 THEN x ELSE 2 * ((x + 1) \div 2)

Float32Array(xs) == [i \in 1..Len(xs) |-> Float32(xs[i])]

\* a normal component through Float32Array: integers as above, an irrational
\* quotient stays the (rounded) quotient it denotes
Float32Num(v) == IF v.r = 1 THEN Num(Float32(v.n)) ELSE v

Float32NumArray(vs) == [i \in 1..Len(vs) |-> Float32Num(vs[i])]

Sub(p, q) == <<p[1] - q[1], p[2] - q[2], p[3] - q[3]>>

\* the operands of the cross product exchanged
CrossSwapped(a, b) ==
    <<b[2] * a[3] - b[3] * a[2],
      b[3] * a[1] - b[1] * a[3],
      b[1] * a[2] - b[2] * a[1]>>

Cross(a, b) ==
    <<a[2] * b[3] - a[3] * b[2],
      a[3] * b[1] - a[1] * b[3],
      a[1] * b[2] - a[2] * b[1]>>

LengthSquared(v) == v[1] * v[1] + v[2] * v[2] + v[3] * v[3]

NumVec(v) == <<Num(v[1]), Num(v[2]), Num(v[3])>>

(***************************************************************************)
(* Values a program's main() can return.  A geom3 is its polygon list; any *)
(* other value makes geom3.toPolygons throw.                               *)
(***************************************************************************)
Geom3(polys) == [valid |-> TRUE, polygons |-> polys]

NotGeom3 == [valid |-> FALSE, polygons |-> <<>>]

\* a polygon: vertices (possibly undefined) and an optional plane.normal
Poly(pts, hasNormal) ==
    [hasVertices |-> TRUE, vertices |-> pts,
     plane |-> [hasNormal |-> hasNormal, normal |-> <<1, 0, 0>>]]

PolyNoVertices ==
    [hasVertices |-> FALSE, vertices |-> <<>>,
     plane |-> [hasNormal |-> FALSE, normal |-> <<1, 0, 0>>]]

\* vertex loops the bounded polygons are cut from: a unit square continued
\* upward, a loop starting with three collinear points, a skew triangle loop
Loops ==
    { << <<0,0,0>>, <<1,0,0>>, <<1,1,0>>, <<0,1,0>>, <<0,2,0>>, <<1,2,0>> >>,
      << <<0,0,0>>, <<1,0,0>>, <<2,0,0>>, <<2,1,0>>, <<0,1,0>>, <<0,2,0>> >>,
      << <<2,0,0>>, <<0,2,0>>, <<0,0,2>>, <<2,2,2>>, <<2,0,2>>, <<0,2,2>> >> }

Prefix(loop, n) == [i \in 1..n |-> loop[((i - 1) % Len(loop)) + 1]]

Polygons ==
    { Poly(Prefix(l, n), h) : l \in Loops, n \in 0..MaxPts, h \in BOOLEAN }
    \cup {PolyNoVertices}

RECURSIVE SeqsUpTo(_, _)
SeqsUpTo(S, n) ==
    IF n = 0 THEN {<<>>}
    ELSE LET shorter == SeqsUpTo(S, n - 1) IN
         shorter \cup {Append(s, x) : s \in {t \in shorter : Len(t) = n - 1}, x \in S}

Solids == {Geom3(ps) : ps \in SeqsUpTo(Polygons, MaxPolys)}

Geometries == Solids \cup {NotGeom3}

Square == << <<0,0,0>>, <<1,0,0>>, <<1,1,0>>, <<0,1,0>> >>

SquareSolid == Geom3(<<Poly(Square, FALSE)>>)

(***************************************************************************)
(* convertToThreeGeometry                                                  *)
(***************************************************************************)
Throw(name, message) == [threw |-> TRUE, name |-> name, message |-> message]

\* jscad.geometries.geom3.toPolygons
toPolygons(g) ==
    IF g.valid THEN [threw |-> FALSE, value |-> g.polygons]
    ELSE [threw |-> TRUE, value |-> <<>>]

\* polygon.vertices || []
polyVertices(polygon) ==
    IF polygon.hasVertices THEN polygon.vertices ELSE <<>>

DefaultNormal == <<0, 0, 1>>

\* the stored plane normal ignored: the normal always computed from the points
FaceNormalIgnoresPlane(polygon) ==
    LET pv == polyVertices(polygon)
        normal == Cross(Sub(pv[2], pv[1]), Sub(pv[3], pv[1]))
        len2 == LengthSquared(normal)
    IN  IF len2 > 0
        THEN <<DivSqrt(normal[1], len2), DivSqrt(normal[2], len2),
               DivSqrt(normal[3], len2)>>
        ELSE NumVec(normal)

\* the normal of a polygon with at least 3 vertices
FaceNormal(polygon) ==
    IF polygon.plane.hasNormal THEN NumVec(polygon.plane.normal)
    ELSE LET pv == polyVertices(polygon)
             a == Sub(pv[2], pv[1])
             b == Sub(pv[3], pv[1])
             normal == Cross(a, b)
             len2 == LengthSquared(normal)
         IN  IF len2 > 0
             THEN <<DivSqrt(normal[1], len2), DivSqrt(normal[2], len2),
                    DivSqrt(normal[3], len2)>>
             ELSE NumVec(normal)

\* vertexIndex kept across calls instead of starting at 0
InitialVertexIndexStale ==
    IF result.called THEN Len(result.geometry.position) \div 3 ELSE 0

InitialVertexIndex == 0

EmptyBuffers ==
    [vertices |-> <<>>, normals |-> <<>>, indices |-> <<>>,
     vertexIndex |-> InitialVertexIndex]

\* the normal pushed twice instead of three times
PushTriangleTwoNormals(acc, pv, normal, i) ==
    [vertices |-> acc.vertices \o pv[1] \o pv[i + 1] \o pv[i + 2],
     normals |-> acc.normals \o normal \o normal,
     indices |-> acc.indices \o
                 <<acc.vertexIndex, acc.vertexIndex + 1, acc.vertexIndex + 2>>,
     vertexIndex |-> acc.vertexIndex + 3]

\* one iteration of the fan loop: the triangle (0, i, i+1), 0-based
PushTriangle(acc, pv, normal, i) ==
    [vertices |-> acc.vertices \o pv[1] \o pv[i + 1] \o pv[i + 2],
     normals |-> acc.normals \o normal \o normal \o normal,
     indices |-> acc.indices \o
                 <<acc.vertexIndex, acc.vertexIndex + 1, acc.vertexIndex + 2>>,
     vertexIndex |-> acc.vertexIndex + 3]

FanStart == 1

\* the loop bound one short: the last triangle of the fan is dropped
RECURSIVE FanLoopShort(_, _, _, _)
FanLoopShort(acc, pv, normal, i) ==
    IF i < Len(pv) - 2
    THEN FanLoopShort(PushTriangle(acc, pv, normal, i), pv, normal, i + 1)
    ELSE acc

\* for (let i = 1; i < polyVertices.length - 1; i++)
RECURSIVE FanLoop(_, _, _, _)
FanLoop(acc, pv, normal, i) ==
    IF i < Len(pv) - 1
    THEN FanLoop(PushTriangle(acc, pv, normal, i), pv, normal, i + 1)
    ELSE acc

MinVertices == 3

\* `break` instead of `continue` on a polygon with fewer than 3 vertices
RECURSIVE PolygonLoopBreak(_, _, _)
PolygonLoopBreak(acc, polygons, k) ==
    IF k > Len(polygons) THEN acc
    ELSE LET polygon == polygons[k]
             pv == polyVertices(polygon)
         IN  IF Len(pv) < 3
             THEN acc
             ELSE PolygonLoopBreak(FanLoop(acc, pv, FaceNormal(polygon), FanStart),
                                   polygons, k + 1)

\* the body of `for (const polygon of polygons)` from polygon k on
RECURSIVE PolygonLoop(_, _, _)
PolygonLoop(acc, polygons, k) ==
    IF k > Len(polygons) THEN acc
    ELSE LET polygon == polygons[k]
             pv == polyVertices(polygon)
         IN  IF Len(pv) < MinVertices
             THEN PolygonLoop(acc, polygons, k + 1)
             ELSE PolygonLoop(FanLoop(acc, pv, FaceNormal(polygon), FanStart),
                              polygons, k + 1)

\* the filter with idx < maxIndex: the last index is dropped
ValidIndicesStrict(indices, vertices) ==
    SelectSeq(indices, LAMBDA idx : 3 * (idx + 1) < Len(vertices))

\* indices.filter(idx => idx <= maxIndex), maxIndex = vertices.length / 3 - 1
ValidIndices(indices, vertices) ==
    SelectSeq(indices, LAMBDA idx : 3 * (idx + 1) <= Len(vertices))

\* the try block of convertToThreeGeometry
ConvertTry(g) ==
    LET tp == toPolygons(g) IN
    IF tp.threw THEN Throw("TypeError", "toPolygons")
    ELSE
    LET acc == PolygonLoop(EmptyBuffers, tp.value, 1)
        validIndices == ValidIndices(acc.indices, acc.vertices)
        setIndex == Len(validIndices) > 0 /\ Len(validIndices) % 3 = 0
    IN  IF Len(acc.vertices) = 0
        THEN Throw("Error", "No valid vertices generated from JSCAD geometry")
        ELSE IF Len(acc.vertices) \div 3 = 0
        THEN Throw("Error", "Generated geometry has no vertices")
        ELSE [threw |-> FALSE,
              value |-> [position |-> Float32Array(acc.vertices),
                         normal |-> Float32NumArray(acc.normals),
                         indexed |-> setIndex,
                         index |-> IF setIndex THEN validIndices ELSE <<>>]]

size == 5

\* the 36 vertices of createFallbackGeometry, face by face
FallbackVertices ==
    <<-size, -size, size, size, -size, size, size, size, size,
      -size, -size, size, size, size, size, -size, size, size,
      -size, -size, -size, -size, size, -size, size, size, -size,
      -size, -size, -size, size, size, -size, size, -size, -size,
      -size, size, -size, -size, size, size, size, size, size,
      -size, size, -size, size, size, size, size, size, -size,
      -size, -size, -size, size, -size, -size, size, -size, size,
      -size, -size, -size, size, -size, size, -size, -size, size,
      size, -size, -size, size, size, -size, size, size, size,
      size, -size, -size, size, size, size, size, -size, size,
      -size, -size, -size, -size, -size, size, -size, size, size,
      -size, -size, -size, -size, size, size, -size, size, -size>>

\* BufferGeometry.computeVertexNormals on a non-indexed position buffer: each
\* triangle (A, B, C) gets (C - B) x (A - B), normalised, on its three vertices
computeVertexNormals(pos) ==
    LET P(v) == <<pos[3 * v + 1], pos[3 * v + 2], pos[3 * v + 3]>>
        Tri(t) == LET cb == Cross(Sub(P(3 * t + 2), P(3 * t + 1)),
                                  Sub(P(3 * t), P(3 * t + 1)))
                      len2 == LengthSquared(cb)
                  IN  IF len2 > 0
                      THEN <<DivSqrt(cb[1], len2), DivSqrt(cb[2], len2),
                             DivSqrt(cb[3], len2)>>
                      ELSE NumVec(cb)
    IN  [i \in 1..Len(pos) |-> Tri((i - 1) \div 9)[((i - 1) % 3) + 1]]

\* the mesh returned without the computeVertexNormals() call
createFallbackGeometryNoNormals ==
    [position |-> Float32Array(FallbackVertices),
     normal |-> <<>>,
     indexed |-> FALSE,
     index |-> <<>>]

createFallbackGeometry ==
    LET vertices == Float32Array(FallbackVertices) IN
    [position |-> vertices,
     normal |-> computeVertexNormals(vertices),
     indexed |-> FALSE,
     index |-> <<>>]

\* the catch block returning an empty BufferGeometry instead of the fallback
convertToThreeGeometryEmpty(g) ==
    LET t == ConvertTry(g) IN
    IF t.threw
    THEN [geometry |-> [position |-> <<>>, normal |-> <<>>,
                        indexed |-> FALSE, index |-> <<>>],
          fallback |-> TRUE]
    ELSE [geometry |-> t.value, fallback |-> FALSE]

\* convertToThreeGeometry: the try block, and the catch returning the fallback
convertToThreeGeometry(g) ==
    LET t == ConvertTry(g) IN
    IF t.threw THEN [geometry |-> createFallbackGeometry, fallback |-> TRUE]
    ELSE [geometry |-> t.value, fallback |-> FALSE]

(***************************************************************************)
(* The sandbox: require and the jscad namespace it resolves against        *)
(***************************************************************************)
Null == [isNull |-> TRUE]

\* a module name is its text cut at the '/' characters, the '/' kept as tokens
RootName == <<"@jscad", "/", "modeling">>

\* the members of the imported jscad namespace, by path from its root
Namespaces ==
    {<<>>, <<"primitives">>, <<"geometries">>, <<"geometries", "geom3">>}

Functions ==
    {<<"primitives", "cube">>, <<"geometries", "geom3", "toPolygons">>}

\* keys every ordinary object inherits from Object.prototype
InheritedKeys == {"constructor"}

Undefined == [kind |-> "undefined", path |-> <<>>]

Member(kind, path) == [kind |-> kind, path |-> path]

jscad == Member("namespace", <<>>)

\* obj[key]; the namespace object of `import * as jscad` has no prototype
GetProp(obj, key) ==
    IF obj.kind = "undefined"
    THEN [threw |-> TRUE, value |-> Undefined]
    ELSE [threw |-> FALSE,
          value |->
            IF obj.kind = "namespace" /\ Append(obj.path, key) \in Namespaces
            THEN Member("namespace", Append(obj.path, key))
            ELSE IF obj.kind = "namespace" /\ Append(obj.path, key) \in Functions
            THEN Member("function", Append(obj.path, key))
            ELSE IF key \in InheritedKeys /\ obj # jscad
            THEN Member("inherited", <<key>>)
            ELSE Undefined]

\* moduleName.split('/')
RECURSIVE SplitFrom(_, _, _)
SplitFrom(name, k, cur) ==
    IF k > Len(name) THEN <<cur>>
    ELSE IF name[k] = "/" THEN <<cur>> \o SplitFrom(name, k + 1, "")
    ELSE SplitFrom(name, k + 1, name[k])

split(name) == SplitFrom(name, 1, "")

\* moduleName.startsWith('@jscad/modeling/')
StartsWithRoot(name) ==
    Len(name) >= 4 /\ SubSeq(name, 1, 4) = RootName \o <<"/">>

FirstPart == 2

\* for (let i = 2; i < parts.length; i++) obj = obj[parts[i]]
RECURSIVE Walk(_, _, _)
Walk(obj, parts, i) ==
    IF i < Len(parts)
    THEN LET got == GetProp(obj, parts[i + 1]) IN
         IF got.threw THEN got ELSE Walk(got.value, parts, i + 1)
    ELSE [threw |-> FALSE, value |-> obj]

\* a thrown value: an Error (with its message; `about` is the text interpolated
\* into the message) or some other value
NoThrow == [isError |-> FALSE, name |-> "", message |-> "", about |-> <<>>]

ErrorObj(name, message) ==
    [isError |-> TRUE, name |-> name, message |-> message, about |-> <<>>]

\* new Error(`Module ${moduleName} not found`)
ModuleNotFound(moduleName) ==
    [isError |-> TRUE, name |-> "Error", message |-> "Module ... not found",
     about |-> moduleName]

\* sandbox.require
require(moduleName) ==
    IF moduleName = RootName
    THEN [threw |-> FALSE, value |-> jscad, error |-> NoThrow]
    ELSE IF StartsWithRoot(moduleName)
    THEN LET w == Walk(jscad, split(moduleName), FirstPart) IN
         IF w.threw
         THEN [threw |-> TRUE, value |-> Undefined,
               error |-> ErrorObj("TypeError", "Cannot read properties of undefined")]
         ELSE [threw |-> FALSE, value |-> w.value, error |-> NoThrow]
    ELSE [threw |-> TRUE, value |-> Undefined,
          error |-> ModuleNotFound(moduleName)]

(***************************************************************************)
(* Program texts, by what they do when evaluated                           *)
(***************************************************************************)
ModuleNames ==
    { RootName,
      RootName \o <<"/", "primitives">>,
      RootName \o <<"/", "geometries">>,
      RootName \o <<"/", "geometries", "/", "geom3">>,
      RootName \o <<"/", "primitives", "/", "cube">>,
      RootName \o <<"/", "nope">>,
      RootName \o <<"/", "nope", "/", "deeper">>,
      RootName \o <<"/">>,
      RootName \o <<"/", "primitives", "/", "constructor">>,
      <<"fs">>,
      <<"@jscad", "/", "io">> }

NoRequire == <<>>

\* what a throw statement of the program can throw
Thrown == { ErrorObj("Error", "boom"), ErrorObj("Error", ""),
            [isError |-> FALSE, name |-> "", message |-> "a string", about |-> <<>>] }

\* the value bound to a main key: undefined, a falsy value, a truthy value that
\* is not callable, a function
MainValues == {"undefined", "falsy", "object", "function"}

\* module.exports after evaluation: null/undefined, or an object with its main
ExportsObjects == {[nullish |-> FALSE, main |-> m] : m \in MainValues}

ModuleExports == ExportsObjects \cup {[nullish |-> TRUE, main |-> "undefined"]}

\* what main() does: throws, or returns a value
Returned ==
    { NotGeom3, Geom3(<<>>), SquareSolid,
      Geom3(<<Poly(SubSeq(Square, 1, 2), FALSE), PolyNoVertices>>) }

MainBehaviours ==
    {[throws |-> TRUE, thrown |-> t, returns |-> NotGeom3] : t \in Thrown}
    \cup {[throws |-> FALSE, thrown |-> NoThrow, returns |-> g] : g \in Returned}

DefaultMain == [throws |-> FALSE, thrown |-> NoThrow, returns |-> NotGeom3]

DefaultExports == [nullish |-> FALSE, main |-> "undefined"]

\* parses: new Function accepts the text.  req: the module the body requires
\* first (NoRequire: none).  throws/thrown: the body then throws.  Otherwise it
\* leaves module.exports and exports.main as given, and main behaves as given.
Program(parses, req, throws, thrown, moduleExports, exportsMain, main) ==
    [parses |-> parses, req |-> req, throws |-> throws, thrown |-> thrown,
     moduleExports |-> moduleExports, exportsMain |-> exportsMain, main |-> main]

HasFunction(me, em) == (~me.nullish /\ me.main = "function") \/ em = "function"

\* one text per behaviour: what follows a syntax error or a throw is not run
Programs ==
    {Program(FALSE, NoRequire, FALSE, NoThrow, DefaultExports, "undefined", DefaultMain)}
    \cup {Program(TRUE, r, TRUE, t, DefaultExports, "undefined", DefaultMain) :
            r \in ModuleNames \cup {NoRequire}, t \in Thrown}
    \cup {Program(TRUE, r, FALSE, NoThrow, me, em, DefaultMain) :
            r \in ModuleNames \cup {NoRequire},
            me \in ModuleExports, em \in MainValues}
    \cup {Program(TRUE, r, FALSE, NoThrow, me, em, mb) :
            r \in ModuleNames \cup {NoRequire},
            me \in {x \in ModuleExports : HasFunction(x, "undefined")},
            em \in MainValues, mb \in MainBehaviours}
    \cup {Program(TRUE, r, FALSE, NoThrow, me, "function", mb) :
            r \in ModuleNames \cup {NoRequire},
            me \in ModuleExports, mb \in MainBehaviours}

\* the text `module.exports = {}`
EmptyExportsProgram ==
    Program(TRUE, NoRequire, FALSE, NoThrow, DefaultExports, "undefined", DefaultMain)

(***************************************************************************)
(* executeJSCAD                                                            *)
(***************************************************************************)
NoCall == [called |-> FALSE, threw |-> FALSE, value |-> Undefined]

\* the result of the try block: threw/error, or the returned geometry; with
\* the steps taken (trace), the require call made and the stage that threw
TryResult(threw, err, value, trace, required, stage, fallback) ==
    [threw |-> threw, error |-> err, value |-> value, trace |-> trace,
     required |-> required, stage |-> stage, fallback |-> fallback]

NoMainMessage == "No main function found in JSCAD code"

\* module.exports.main || exports.main, for a module.exports that is an object
mainFunc(c) ==
    IF c.moduleExports.main \in {"object", "function"}
    THEN c.moduleExports.main
    ELSE c.exportsMain

\* main called once to test its result and once more to use it
AfterEvaluateMainTwice(c, trace, required) ==
    IF c.moduleExports.nullish
    THEN TryResult(TRUE, ErrorObj("TypeError", "Cannot read properties of null"),
                   Null, trace, required, "entry", FALSE)
    ELSE IF mainFunc(c) # "function"
    THEN TryResult(TRUE, ErrorObj("Error", NoMainMessage),
                   Null, trace, required, "entry", FALSE)
    ELSE IF c.main.throws
    THEN TryResult(TRUE, c.main.thrown, Null, Append(trace, "main"),
                   required, "main", FALSE)
    ELSE LET conv == convertToThreeGeometry(c.main.returns) IN
         TryResult(FALSE, NoThrow, conv.geometry,
                   trace \o <<"main", "main", "convert">> \o
                     (IF conv.fallback THEN <<"fallback">> ELSE <<>>),
                   required, "none", conv.fallback)

\* lines 29-39: after the program body has run without throwing
AfterEvaluate(c, trace, required) ==
    IF c.moduleExports.nullish
    THEN TryResult(TRUE, ErrorObj("TypeError", "Cannot read properties of null"),
                   Null, trace, required, "entry", FALSE)
    ELSE IF mainFunc(c) # "function"
    THEN TryResult(TRUE, ErrorObj("Error", NoMainMessage),
                   Null, trace, required, "entry", FALSE)
    ELSE IF c.main.throws
    THEN TryResult(TRUE, c.main.thrown, Null, Append(trace, "main"),
                   required, "main", FALSE)
    ELSE LET conv == convertToThreeGeometry(c.main.returns) IN
         TryResult(FALSE, NoThrow, conv.geometry,
                   trace \o <<"main", "convert">> \o
                     (IF conv.fallback THEN <<"fallback">> ELSE <<>>),
                   required, "none", conv.fallback)

\* lines 26-27: new Function(...) and the call of the program body
ExecuteTry(c) ==
    IF ~c.parses
    THEN TryResult(TRUE, ErrorObj("SyntaxError", "Unexpected token"),
                   Null, <<>>, NoCall, "parse", FALSE)
    ELSE LET r == IF c.req = NoRequire THEN NoCall
                  ELSE LET q == require(c.req) IN
                       [called |-> TRUE, threw |-> q.threw, value |-> q.value]
         IN  IF r.called /\ r.threw
             THEN TryResult(TRUE, require(c.req).error, Null, <<"evaluate">>,
                            r, "evaluate", FALSE)
             ELSE IF c.throws
             THEN TryResult(TRUE, c.thrown, Null, <<"evaluate">>, r,
                            "evaluate", FALSE)
             ELSE AfterEvaluate(c, <<"evaluate">>, r)

\* the settled promise: the try block's value, or the catch block's rethrow;
\* cause is what the try block threw
Settled(kind, value, reason, t) ==
    [kind |-> kind, value |-> value, reason |-> reason, cause |-> t.error,
     trace |-> t.trace, required |-> t.required, stage |-> t.stage,
     fallback |-> t.fallback]

\* the catch block throwing a new error instead of the one it caught
RethrowWrapped(t) ==
    Settled("rejected", Null, ErrorObj("Error", "Execution failed"), t)

\* the catch block resolving with the fallback mesh instead of rethrowing
RethrowSwallowed(t) == Settled("resolved", createFallbackGeometry, NoThrow, t)

\* catch (error) { console.error(...); throw error }
Rethrow(t) == Settled("rejected", Null, t.error, t)

executeJSCAD(c) ==
    LET t == ExecuteTry(c) IN
    IF t.threw THEN Rethrow(t) ELSE Settled("resolved", t.value, NoThrow, t)

(***************************************************************************)
(* CompileSpec: convertToThreeGeometry called on a solid, with other calls *)
(* in between                                                              *)
(***************************************************************************)
NotCalled == [called |-> FALSE]

Called(r) == [called |-> TRUE, geometry |-> r.geometry, fallback |-> r.fallback]

\* the first result on jscadGeometry, and whether another value was compiled since
First(r, interleaved) == [called |-> TRUE, returned |-> r, interleaved |-> interleaved]

OtherGeometries == {SquareSolid, NotGeom3}

IdleViewer ==
    /\ model = Null
    /\ geometry = Null
    /\ error = Null
    /\ pending = <<>>

IdleCompiler ==
    /\ jscadGeometry = NotGeom3
    /\ lastInput = Null
    /\ result = NotCalled
    /\ first = NotCalled

IdleExecutor ==
    /\ code = EmptyExportsProgram
    /\ outcome = NotCalled

\* the jscad namespace as imported, no program run yet
IdleSession ==
    /\ table = Functions
    /\ session = NotCalled

\* Chat, App and useLLM as mounted
IdleChat ==
    /\ input = <<>>
    /\ isLoading = FALSE
    /\ inFlight = <<>>
    /\ messages = <<>>
    /\ currentModel = Null
    /\ lastSubmit = "none"

IdleService ==
    /\ request = Null
    /\ response = NotCalled

CompileInit ==
    /\ jscadGeometry \in Geometries
    /\ lastInput = Null
    /\ result = NotCalled
    /\ first = NotCalled
    /\ IdleExecutor
    /\ IdleViewer
    /\ IdleSession
    /\ IdleChat
    /\ IdleService

Convert ==
    /\ result' = Called(convertToThreeGeometry(jscadGeometry))
    /\ lastInput' = jscadGeometry
    /\ first' = IF first.called THEN first ELSE First(result', FALSE)
    /\ UNCHANGED <<jscadGeometry, code, outcome, model, geometry, error, pending,
                   sessionVars, chatVars, serviceVars>>

ConvertOther ==
    \E g \in OtherGeometries :
        /\ g # jscadGeometry
        /\ result' = Called(convertToThreeGeometry(g))
        /\ lastInput' = g
        /\ first' = IF first.called THEN First(first.returned, TRUE) ELSE first
        /\ UNCHANGED <<jscadGeometry, code, outcome,
                       model, geometry, error, pending,
                       sessionVars, chatVars, serviceVars>>

CompileNext == Convert \/ ConvertOther

CompileSpec == CompileInit /\ [][CompileNext]_vars

(***************************************************************************)
(* ExecSpec: executeJSCAD called on a program text                         *)
(***************************************************************************)
ExecInit ==
    /\ code \in Programs
    /\ outcome = NotCalled
    /\ IdleCompiler
    /\ IdleViewer
    /\ IdleSession
    /\ IdleChat
    /\ IdleService

Execute ==
    /\ ~outcome.called
    /\ outcome' = [called |-> TRUE, promise |-> executeJSCAD(code)]
    /\ UNCHANGED <<code, jscadGeometry, lastInput, result, first,
                   model, geometry, error, pending,
                   sessionVars, chatVars, serviceVars>>

ExecNext == Execute

ExecSpec == ExecInit /\ [][ExecNext]_vars

(***************************************************************************)
(* Spec: ModelViewer.  The effect runs when the model prop changes; each   *)
(* `await executeJSCAD(model.code)` resumes later, in the order awaited.   *)
(***************************************************************************)
\* the text `require('fs')`
FsProgram ==
    Program(TRUE, <<"fs">>, FALSE, NoThrow, DefaultExports, "undefined", DefaultMain)

\* the texts the viewer is handed: those that require nothing, and one whose
\* require throws
ViewerPrograms ==
    {c \in Programs : c.req = NoRequire} \cup {FsProgram}

UnknownErrorMessage == "Unknown error"

\* err instanceof Error ? err.message : 'Unknown error'
ErrorMessage(err) ==
    IF err.isError THEN [message |-> err.message, about |-> err.about]
    ELSE [message |-> UnknownErrorMessage, about |-> <<>>]

Init ==
    /\ IdleViewer
    /\ IdleCompiler
    /\ IdleExecutor
    /\ IdleSession
    /\ IdleChat
    /\ IdleService

\* the effect with model === null
ClearModel ==
    /\ model # Null
    /\ model' = Null
    /\ geometry' = Null
    /\ error' = Null
    /\ UNCHANGED <<pending, jscadGeometry, lastInput, result, first, code, outcome,
                   sessionVars, chatVars, serviceVars>>

\* the effect with a model: loadModel() up to its await
LoadModel ==
    \E c \in ViewerPrograms :
        /\ Len(pending) < MaxPending
        /\ model' = [code |-> c]
        /\ error' = Null
        /\ pending' = Append(pending, executeJSCAD(c))
        /\ UNCHANGED <<geometry, jscadGeometry, lastInput, result, first, code, outcome,
                       sessionVars, chatVars, serviceVars>>

\* loadModel() after its await: the try continues, or the catch runs
Resume ==
    /\ pending # <<>>
    /\ LET p == Head(pending) IN
       IF p.kind = "resolved"
       THEN /\ geometry' = p.value
            /\ error' = error
       ELSE /\ error' = ErrorMessage(p.reason)
            /\ geometry' = Null
    /\ pending' = Tail(pending)
    /\ UNCHANGED <<model, jscadGeometry, lastInput, result, first, code, outcome,
                   sessionVars, chatVars, serviceVars>>

Next == ClearModel \/ LoadModel \/ Resume

Spec == Init /\ [][Next]_vars

(***************************************************************************)
(* SessionSpec: executeJSCAD called on one program text after another.     *)
(* require('@jscad/modeling') returns the imported jscad object itself, so *)
(* a program can assign to the members of its sub-namespaces; table holds  *)
(* the function members no program has overwritten so far.                 *)
(***************************************************************************)
NoMember == <<>>

\* jscad.geometries.geom3.toPolygons, which convertToThreeGeometry calls
ToPolygonsPath == <<"geometries", "geom3", "toPolygons">>

\* base: what the text does by itself.  overwrites: the function member of
\* jscad its body sets to undefined after requiring the root (NoMember: none).
\* calls: the function member its main calls first (NoMember: none).
SessionProgram(base, overwrites, calls) ==
    [base |-> base, overwrites |-> overwrites, calls |-> calls]

\* the texts `const jscad = require('@jscad/modeling'); ...;
\* module.exports = { main }`, one per behaviour of main
RootPrograms ==
    {c \in Programs :
        /\ c.parses /\ c.req = RootName /\ ~c.throws
        /\ c.moduleExports = [nullish |-> FALSE, main |-> "function"]
        /\ c.exportsMain = "undefined"}

SessionPrograms ==
    {SessionProgram(c, NoMember, NoMember) :
        c \in {x \in Programs : ~x.parses} \cup {EmptyExportsProgram, FsProgram}}
    \cup {SessionProgram(c, o, k) :
            c \in RootPrograms,
            o \in Functions \cup {NoMember}, k \in Functions \cup {NoMember}}

\* the members the body of a program overwrites
Overwritten(sp) ==
    IF sp.overwrites # NoMember /\ sp.base.parses /\ sp.base.req = RootName
    THEN {sp.overwrites}
    ELSE {}

\* what the text does when the members left are tbl: calling an overwritten
\* member throws a TypeError inside main, and with toPolygons overwritten
\* line 49 throws for every value, as it does for a value that is no solid
Effective(tbl, sp) ==
    LET c == sp.base
        called == IF sp.calls # NoMember /\ sp.calls \notin tbl
                  THEN [throws |-> TRUE,
                        thrown |-> ErrorObj("TypeError", "... is not a function"),
                        returns |-> NotGeom3]
                  ELSE c.main
        compiled == IF ~called.throws /\ ToPolygonsPath \notin tbl
                    THEN [called EXCEPT !.returns = NotGeom3]
                    ELSE called
    IN  [c EXCEPT !.main = compiled]

SessionInit ==
    /\ IdleSession
    /\ IdleCompiler
    /\ IdleExecutor
    /\ IdleViewer
    /\ IdleChat
    /\ IdleService

\* one executeJSCAD call: the body runs (and overwrites), then main and the
\* compiler run against the members left
RunProgram ==
    \E sp \in SessionPrograms :
        /\ table' = table \ Overwritten(sp)
        /\ session' = [called |-> TRUE, program |-> sp,
                       promise |-> executeJSCAD(Effective(table', sp))]
        /\ UNCHANGED <<jscadGeometry, lastInput, result, first, code, outcome,
                       model, geometry, error, pending, chatVars, serviceVars>>

SessionNext == RunProgram

SessionSpec == SessionInit /\ [][SessionNext]_vars

(***************************************************************************)
(* ChatSpec: Chat's form, App.handleSendMessage and useLLM.generateModel.  *)
(* A text is the sequence of its characters.  handleSubmit is taken as     *)
(* callable with any input in any state: the disabled attributes of the    *)
(* input and the button are not relied on.                                 *)
(***************************************************************************)
Chars == {" ", "a"}

Inputs == SeqsUpTo(Chars, MaxInput)

RECURSIVE trimStart(_)
trimStart(text) ==
    IF text # <<>> /\ Head(text) = " " THEN trimStart(Tail(text)) ELSE text

RECURSIVE trimEnd(_)
trimEnd(text) ==
    IF text # <<>> /\ text[Len(text)] = " "
    THEN trimEnd(SubSeq(text, 1, Len(text) - 1))
    ELSE text

\* String.prototype.trim
trim(text) == trimEnd(trimStart(text))

\* the test without !isLoading
CanSubmitIgnoresLoading(text, loading) == trim(text) # <<>>

\* input.trim() && !isLoading; the empty string is falsy
CanSubmit(text, loading) == trim(text) # <<>> /\ ~loading

\* the code of the response the service gives for a prompt
ResponseCode(prompt) == [answers |-> prompt]

ChatInit ==
    /\ IdleChat
    /\ IdleCompiler
    /\ IdleExecutor
    /\ IdleViewer
    /\ IdleSession
    /\ IdleService

\* onChange: setInput(e.target.value)
SetInput ==
    \E text \in Inputs :
        /\ text # input
        /\ input' = text
        /\ UNCHANGED <<isLoading, inFlight, messages, currentModel, lastSubmit>>
        /\ UNCHANGED <<jscadGeometry, lastInput, result, first, code, outcome,
                       model, geometry, error, pending, sessionVars, serviceVars>>

\* handleSubmit; when it sends, handleSendMessage appends the user message and
\* calls generateModel, which sets isLoading and awaits the service
Submit ==
    /\ IF CanSubmit(input, isLoading)
       THEN /\ Len(messages) + 2 <= MaxMessages
            /\ messages' = Append(messages, "user")
            /\ isLoading' = TRUE
            /\ inFlight' = Append(inFlight, trim(input))
            /\ input' = <<>>
            /\ lastSubmit' = "sent"
       ELSE /\ lastSubmit' = "dropped"
            /\ UNCHANGED <<input, isLoading, inFlight, messages>>
    /\ UNCHANGED currentModel
    /\ UNCHANGED <<jscadGeometry, lastInput, result, first, code, outcome,
                   model, geometry, error, pending, sessionVars, serviceVars>>

\* the sequence without its element i
Without(seq, i) == SubSeq(seq, 1, i - 1) \o SubSeq(seq, i + 1, Len(seq))

\* the service settles one awaited call: generateModel's finally clears
\* isLoading, then handleSendMessage continues in its try or its catch
Settle ==
    \E i \in 1..Len(inFlight), kind \in {"resolved", "rejected"} :
        /\ inFlight' = Without(inFlight, i)
        /\ isLoading' = FALSE
        /\ IF kind = "resolved"
           THEN /\ messages' = Append(messages, "assistant")
                /\ currentModel' = [code |-> ResponseCode(inFlight[i])]
           ELSE /\ messages' = Append(messages, "error")
                /\ UNCHANGED currentModel
        /\ UNCHANGED <<input, lastSubmit>>
        /\ UNCHANGED <<jscadGeometry, lastInput, result, first, code, outcome,
                       model, geometry, error, pending, sessionVars, serviceVars>>

ChatNext == SetInput \/ Submit \/ Settle

ChatSpec == ChatInit /\ [][ChatNext]_vars

(***************************************************************************)
(* ServiceSpec: LLMService.generateModel.  A prompt is what its text holds *)
(* for the service: the shape words it includes, its numbers in order, and *)
(* the number its text puts next to a height keyword.                      *)
(***************************************************************************)
Keywords == {"cube", "box", "sphere", "ball", "cylinder", "torus", "donut"}

WordSets ==
    {{}} \cup {{w} : w \in Keywords}
    \cup {{"cube", "sphere"}, {"ball", "cylinder"}, {"donut", "cylinder"}}

Prompt(words, numbers, tall) ==
    [words |-> words, numbers |-> numbers, tall |-> tall]

Prompts ==
    {Prompt(w, n[1], n[2]) :
        w \in WordSets,
        n \in { <<<<>>, <<>>>>, <<<<7>>, <<>>>>, <<<<7, 20>>, <<20>>>>,
                <<<<20>>, <<20>>>> }}

RealProviders == {"openai", "anthropic", "google"}

\* config.provider: VITE_LLM_PROVIDER, any text, or 'simulation' when unset
Providers == RealProviders \cup {"simulation", "other"}

\* what a provider answers with: the message content includes module.exports,
\* only `const main = `, or neither
Contents == {"exports", "mainOnly", "prose"}

\* what fetch and response.json() do: fetch rejects; a non-OK response whose
\* body is JSON or not; an OK response whose body is not JSON, lacks the list,
\* has it empty, has null for the content, or has a content
Fetches ==
    {[status |-> "networkError", body |-> "none"]}
    \cup {[status |-> "notOk", body |-> b] : b \in {"notJson", "errorJson"}}
    \cup {[status |-> "ok", body |-> b] :
            b \in {"notJson", "missing", "empty", "nullContent"} \cup Contents}

\* getApiKey gives a key to the three providers only
Requests ==
    {[provider |-> pr, hasKey |-> k, fetch |-> f, prompt |-> q] :
        pr \in Providers, k \in BOOLEAN, f \in Fetches, q \in Prompts}
    \ {r \in [provider : Providers, hasKey : BOOLEAN, fetch : Fetches,
               prompt : Prompts] :
          r.provider \notin RealProviders /\ r.hasKey}

Includes(prompt, ws) == prompt.words \cap ws # {}

\* extractNumber(text, defaultValue, keywords): withKeywords is keywords given
extractNumber(prompt, defaultValue, withKeywords) ==
    IF prompt.numbers # <<>>
    THEN IF withKeywords /\ prompt.tall # <<>>
         THEN prompt.tall[1]
         ELSE prompt.numbers[1]
    ELSE defaultValue

describeModel(prompt) ==
    IF Includes(prompt, {"cube", "box"}) THEN "cube"
    ELSE IF Includes(prompt, {"sphere", "ball"}) THEN "sphere"
    ELSE IF Includes(prompt, {"cylinder"}) THEN "cylinder"
    ELSE IF Includes(prompt, {"torus", "donut"}) THEN "torus"
    ELSE "3D model"

\* a simulated program text: it requires the root, builds one primitive with
\* the given parameters in main, and ends with `module.exports = { main }`
SimCode(primitive, params) ==
    [source |-> "simulation", requires |-> RootName,
     primitive |-> primitive, params |-> params,
     moduleExports |-> [nullish |-> FALSE, main |-> "function"],
     exportsMain |-> "undefined"]

Max(a, b) == IF a >= b THEN a ELSE b

\* simulateResponse; the torus radii are in tenths
simulateResponse(prompt) ==
    IF Includes(prompt, {"cube", "box"})
    THEN LET side == extractNumber(prompt, 10, FALSE) IN
         [code |-> SimCode("cuboid", <<side, side, side>>),
          explanation |-> <<"cube", side>>]
    ELSE IF Includes(prompt, {"sphere", "ball"})
    THEN LET radius == extractNumber(prompt, 5, FALSE) IN
         [code |-> SimCode("sphere", <<radius>>),
          explanation |-> <<"sphere", radius>>]
    ELSE IF Includes(prompt, {"cylinder"})
    THEN LET radius == extractNumber(prompt, 3, FALSE)
             height == extractNumber(prompt, 10, TRUE)
         IN  [code |-> SimCode("cylinder", <<radius, height>>),
              explanation |-> <<"cylinder", radius, height>>]
    ELSE IF Includes(prompt, {"torus", "donut"})
    THEN LET outerRadius == extractNumber(prompt, 5, FALSE)
             innerRadius == Max(1 * 10, outerRadius * 3)
         IN  [code |-> SimCode("torus", <<innerRadius, outerRadius * 10>>),
              explanation |-> <<"torus", outerRadius * 10, innerRadius>>]
    ELSE [code |-> SimCode("cuboid", <<5, 5, 5>>),
          explanation |-> <<"default cube">>]

\* extractCode: `module.exports = { main }` is appended to a text that lacks
\* module.exports and has a main
extractCode(content) ==
    [source |-> "provider", content |-> content,
     appended |-> (content = "mainOnly")]

Raised(err) == [threw |-> TRUE, error |-> err, value |-> Null]

\* callOpenAI, callAnthropic, callGoogle: the same steps for each provider
callProvider(req) ==
    IF ~req.hasKey
    THEN Raised([ErrorObj("Error", "API key not configured")
                    EXCEPT !.about = <<req.provider>>])
    ELSE IF req.fetch.status = "networkError"
    THEN Raised(ErrorObj("TypeError", "Failed to fetch"))
    ELSE IF req.fetch.body = "notJson"
    THEN Raised(ErrorObj("SyntaxError", "Unexpected token"))
    ELSE IF req.fetch.status = "notOk"
    THEN Raised([ErrorObj("Error", "API error") EXCEPT !.about = <<req.provider>>])
    ELSE IF req.fetch.body \in {"missing", "empty", "nullContent"}
    THEN Raised(ErrorObj("TypeError", "Cannot read properties"))
    ELSE [threw |-> FALSE, error |-> NoThrow,
          value |-> [code |-> extractCode(req.fetch.body),
                     explanation |-> <<describeModel(req.prompt), req.provider>>]]

\* the try block of generateModel
GenerateTry(req) ==
    IF req.provider \in RealProviders
    THEN callProvider(req)
    ELSE [threw |-> FALSE, error |-> NoThrow,
          value |-> simulateResponse(req.prompt)]

\* the catch block rethrowing instead of falling back to the simulation
generateModelRethrows(req) ==
    LET t == GenerateTry(req) IN
    IF t.threw
    THEN [kind |-> "rejected", value |-> Null, reason |-> t.error, caught |-> TRUE]
    ELSE [kind |-> "resolved", value |-> t.value, reason |-> NoThrow,
          caught |-> FALSE]

generateModel(req) ==
    LET t == GenerateTry(req) IN
    IF t.threw
    THEN [kind |-> "resolved", value |-> simulateResponse(req.prompt),
          reason |-> NoThrow, caught |-> TRUE]
    ELSE [kind |-> "resolved", value |-> t.value, reason |-> NoThrow,
          caught |-> FALSE]

ServiceInit ==
    /\ request \in Requests
    /\ response = NotCalled
    /\ IdleCompiler
    /\ IdleExecutor
    /\ IdleViewer
    /\ IdleSession
    /\ IdleChat

Generate ==
    /\ ~response.called
    /\ response' = [called |-> TRUE, promise |-> generateModel(request)]
    /\ UNCHANGED <<request, jscadGeometry, lastInput, result, first, code, outcome,
                   model, geometry, error, pending, sessionVars, chatVars>>

ServiceNext == Generate

ServiceSpec == ServiceInit /\ [][ServiceNext]_vars

(***************************************************************************)
(* Claims on convertToThreeGeometry, checked under CompileSpec             *)
(***************************************************************************)
\* the number of points of a polygon
PointCount(polygon) == IF polygon.hasVertices THEN Len(polygon.vertices) ELSE 0

Degenerate(polygon) == PointCount(polygon) < 3

NoTriangles(g) == \A k \in 1..Len(g.polygons) : Degenerate(g.polygons[k])

RECURSIVE Concat(_)
Concat(ss) == IF ss = <<>> THEN <<>> ELSE Head(ss) \o Concat(Tail(ss))

RECURSIVE Sum(_)
Sum(ns) == IF ns = <<>> THEN 0 ELSE Head(ns) + Sum(Tail(ns))

\* the fan of a polygon: triangle i is (point 0, point i, point i+1)
FanOf(polygon) ==
    IF Degenerate(polygon) THEN <<>>
    ELSE LET pv == polygon.vertices IN
         Concat([i \in 1..(Len(pv) - 2) |-> pv[1] \o pv[i + 1] \o pv[i + 2]])

FanPositions(polys) == Concat([k \in 1..Len(polys) |-> FanOf(polys[k])])

TriangleTotal(polys) ==
    Sum([k \in 1..Len(polys) |->
            IF Degenerate(polys[k]) THEN 0 ELSE PointCount(polys[k]) - 2])

VertexCount(mesh) == Len(mesh.position) \div 3

Compiled == result.called /\ lastInput # Null

\* C3: when the solid gives no vertices (no polygons, or only polygons with
\* fewer than 3 points) or compilation throws (the value is no solid), the result
\* is the fallback generator's cuboid; no returned mesh has an empty position
\* buffer.
C3_FallbackOnEmptyOrThrow ==
    Compiled =>
        /\ (~lastInput.valid \/ NoTriangles(lastInput)) =>
              /\ result.fallback
              /\ result.geometry = createFallbackGeometry
              /\ Len(result.geometry.position) = 108
        /\ Len(result.geometry.position) > 0

C3_Witness ==
    /\ Compiled
    /\ lastInput.valid
    /\ Len(lastInput.polygons) = 2
    /\ NoTriangles(lastInput)
    /\ result.fallback

\* C4: a mesh returned by a successful compilation has position and normal
\* buffers of equal length, and an index buffer that is absent or of a length
\* divisible by 3 with every entry below the vertex count.
C4_SuccessfulMeshWellFormed ==
    (Compiled /\ ~result.fallback) =>
        LET mesh == result.geometry IN
        /\ Len(mesh.position) = Len(mesh.normal)
        /\ mesh.indexed =>
              /\ Len(mesh.index) % 3 = 0
              /\ \A i \in 1..Len(mesh.index) :
                    mesh.index[i] >= 0 /\ mesh.index[i] < VertexCount(mesh)

C4_Witness ==
    /\ Compiled
    /\ ~result.fallback
    /\ Len(lastInput.polygons) = 2
    /\ PointCount(lastInput.polygons[1]) = 4
    /\ PointCount(lastInput.polygons[2]) = 3
    /\ result.geometry.indexed
    /\ Len(result.geometry.index) = 9

\* C7: a polygon with N >= 3 points becomes the N-2 triangles (point 0, point i,
\* point i+1), i = 1..N-2, appended to the position buffer in that order; the
\* mesh has 3 * sum(N-2) vertices over the polygons with at least 3 points.
C7_FanTriangulation ==
    (Compiled /\ lastInput.valid /\ ~NoTriangles(lastInput)) =>
        /\ result.geometry.position = FanPositions(lastInput.polygons)
        /\ VertexCount(result.geometry) = 3 * TriangleTotal(lastInput.polygons)

C7_Witness ==
    /\ Compiled
    /\ lastInput.valid
    /\ Len(lastInput.polygons) = 2
    /\ PointCount(lastInput.polygons[1]) = 4
    /\ PointCount(lastInput.polygons[2]) = 3
    /\ VertexCount(result.geometry) = 9

RemoveDegenerate(polys) == SelectSeq(polys, LAMBDA q : ~Degenerate(q))

\* C8: polygons with 0, 1 or 2 points add nothing and raise no error: the
\* buffers are those of the same solid with these polygons removed, wherever
\* they sit among the polygons.
C8_DegenerateSkipped ==
    (Compiled /\ lastInput.valid) =>
        /\ result.geometry =
              convertToThreeGeometry(
                  Geom3(RemoveDegenerate(lastInput.polygons))).geometry
        /\ ~NoTriangles(lastInput) => ~result.fallback

C8_Witness ==
    /\ Compiled
    /\ lastInput.valid
    /\ Len(lastInput.polygons) = 2
    /\ PointCount(lastInput.polygons[1]) = 2
    /\ PointCount(lastInput.polygons[2]) = 4
    /\ ~result.fallback

UnitZ == <<Num(0), Num(0), Num(1)>>

SquareCompiled == Compiled /\ lastInput = SquareSolid

\* C9 as stated: the square (0,0,0),(1,0,0),(1,1,0),(0,1,0) without a stored
\* normal gives 2 triangles, 18 position numbers, normal (0,0,1) on every vertex
\* and the index buffer [0,1,2,0,2,3].
C9_Original ==
    SquareCompiled =>
        /\ Len(result.geometry.position) = 18
        /\ result.geometry.normal = Concat([v \in 1..6 |-> UnitZ])
        /\ result.geometry.indexed
        /\ result.geometry.index = <<0, 1, 2, 0, 2, 3>>

\* C9 amended: the same square gives 2 triangles, 18 position numbers, normal
\* (0,0,1) on every vertex and the index buffer [0,1,2,3,4,5].
C9_SquareScenario ==
    SquareCompiled =>
        /\ ~result.fallback
        /\ Len(result.geometry.position) = 18
        /\ result.geometry.position =
              <<0,0,0, 1,0,0, 1,1,0, 0,0,0, 1,1,0, 0,1,0>>
        /\ result.geometry.normal = Concat([v \in 1..6 |-> UnitZ])
        /\ result.geometry.indexed
        /\ result.geometry.index = <<0, 1, 2, 3, 4, 5>>

C9_Witness == SquareCompiled /\ VertexCount(result.geometry) = 6

Corners(pos) ==
    {<<pos[3 * v + 1], pos[3 * v + 2], pos[3 * v + 3]>> :
        v \in 0..((Len(pos) \div 3) - 1)}

\* C11: the fallback generator returns the same mesh on every call, whatever was
\* compiled before: a non-indexed cuboid of 12 triangles (36 vertices, 108
\* position numbers) whose every coordinate is +5 or -5, with a normal buffer as
\* long as the position buffer.
C11_FallbackFixedCuboid ==
    (Compiled /\ result.fallback) =>
        LET mesh == result.geometry IN
        /\ ~mesh.indexed
        /\ mesh.index = <<>>
        /\ VertexCount(mesh) = 36
        /\ Len(mesh.position) = 3 * 3 * 12
        /\ \A i \in 1..Len(mesh.position) : mesh.position[i] \in {5, -5}
        /\ Cardinality(Corners(mesh.position)) = 8
        /\ Len(mesh.normal) = Len(mesh.position)
        /\ (first.called /\ first.returned.fallback) =>
              mesh = first.returned.geometry

C11_Witness ==
    /\ Compiled
    /\ result.fallback
    /\ first.called
    /\ first.interleaved
    /\ first.returned.fallback
    /\ lastInput # jscadGeometry

\* the vertices emitted for the polygons before polygon k
VerticesBefore(polys, k) == 3 * TriangleTotal(SubSeq(polys, 1, k - 1))

\* the normal carried by vertex v (0-based) of a mesh
NormalAt(mesh, v) ==
    <<mesh.normal[3 * v + 1], mesh.normal[3 * v + 2], mesh.normal[3 * v + 3]>>

\* the normals carried by the vertices emitted for polygon k
PolygonNormals(mesh, polys, k) ==
    {NormalAt(mesh, VerticesBefore(polys, k) + v) :
        v \in 0..(3 * (PointCount(polys[k]) - 2) - 1)}

\* the cross product of the edges from the first point to the second and third
EdgeCross(polygon) ==
    LET pv == polygon.vertices IN Cross(Sub(pv[2], pv[1]), Sub(pv[3], pv[1]))

Collinear(polygon) == EdgeCross(polygon) = <<0, 0, 0>>

\* C12 as stated: a polygon with at least 3 points, no stored plane normal and
\* its first three points collinear gets the default normal (0,0,1) on every
\* vertex of its triangles, and is neither dropped nor a failure.
C12_Original ==
    (Compiled /\ lastInput.valid) =>
        LET polys == lastInput.polygons IN
        \A k \in 1..Len(polys) :
            (/\ ~Degenerate(polys[k])
             /\ ~polys[k].plane.hasNormal
             /\ Collinear(polys[k])) =>
                /\ ~result.fallback
                /\ VertexCount(result.geometry) = 3 * TriangleTotal(polys)
                /\ PolygonNormals(result.geometry, polys, k) = {UnitZ}

\* the unit normal of a polygon whose first three points are not collinear
UnitCross(polygon) ==
    LET c == EdgeCross(polygon)
        len2 == LengthSquared(c)
    IN  <<DivSqrt(c[1], len2), DivSqrt(c[2], len2), DivSqrt(c[3], len2)>>

\* C13: shading is flat per face.  All vertices emitted for one polygon carry
\* one normal: the stored plane normal when the polygon has one, whatever its
\* points, and otherwise the unit normal of its first three points (when these
\* are not collinear); and triangle t of the mesh has the indices 3t, 3t+1, 3t+2,
\* the number of vertices emitted before it and the two that follow.
C13_FlatShading ==
    (Compiled /\ lastInput.valid /\ ~NoTriangles(lastInput)) =>
        LET polys == lastInput.polygons
            mesh == result.geometry
        IN  /\ ~result.fallback
            /\ \A k \in 1..Len(polys) :
                  ~Degenerate(polys[k]) =>
                     /\ Cardinality(PolygonNormals(mesh, polys, k)) = 1
                     /\ polys[k].plane.hasNormal =>
                           PolygonNormals(mesh, polys, k) =
                              {NumVec(polys[k].plane.normal)}
                     /\ (~polys[k].plane.hasNormal /\ ~Collinear(polys[k])) =>
                           PolygonNormals(mesh, polys, k) = {UnitCross(polys[k])}
            /\ mesh.indexed
            /\ Len(mesh.index) = 3 * TriangleTotal(polys)
            /\ \A t \in 0..(TriangleTotal(polys) - 1) :
                  /\ mesh.index[3 * t + 1] = 3 * t
                  /\ mesh.index[3 * t + 2] = 3 * t + 1
                  /\ mesh.index[3 * t + 3] = 3 * t + 2

\* a quadrilateral with a stored normal that its points do not have, followed
\* by a triangle without one
C13_Witness ==
    /\ Compiled
    /\ lastInput.valid
    /\ Len(lastInput.polygons) = 2
    /\ PointCount(lastInput.polygons[1]) = 4
    /\ lastInput.polygons[1].plane.hasNormal
    /\ UnitCross(lastInput.polygons[1]) # NumVec(lastInput.polygons[1].plane.normal)
    /\ PointCount(lastInput.polygons[2]) = 3
    /\ ~lastInput.polygons[2].plane.hasNormal
    /\ ~Collinear(lastInput.polygons[2])
    /\ NormalAt(result.geometry, 6) = UnitCross(lastInput.polygons[2])

\* C17: the index filter removes nothing: whenever a triangle was emitted the
\* mesh is indexed and its index buffer is 0, 1, ..., V-1 for its vertex count
\* V, a multiple of 3; no successful compilation returns a non-indexed mesh.
C17_IndexFilterKeepsAll ==
    /\ (Compiled /\ lastInput.valid /\ ~NoTriangles(lastInput)) =>
          LET mesh == result.geometry
              V == VertexCount(mesh)
          IN  /\ ~result.fallback
              /\ V > 0
              /\ V % 3 = 0
              /\ 3 * V = Len(mesh.position)
              /\ mesh.indexed
              /\ mesh.index = [i \in 1..V |-> i - 1]
    /\ (Compiled /\ ~result.fallback) => result.geometry.indexed

C17_Witness ==
    /\ Compiled
    /\ ~result.fallback
    /\ Len(lastInput.polygons) = 2
    /\ PointCount(lastInput.polygons[1]) = 3
    /\ PointCount(lastInput.polygons[2]) = 4
    /\ result.geometry.index = <<0, 1, 2, 3, 4, 5, 6, 7, 8>>

(***************************************************************************)
(* Claims on executeJSCAD, checked under ExecSpec                          *)
(***************************************************************************)
Executed == outcome.called

\* the sandbox stage failed: the text did not parse, its body threw (a require
\* included), no callable main was found, or main() threw
SandboxFailed(p) == p.stage # "none"

Evaluated(p) == p.stage \notin {"parse", "evaluate"}

NeitherCallable(c) ==
    /\ c.moduleExports.nullish \/ c.moduleExports.main # "function"
    /\ c.exportsMain # "function"

\* C5 as stated: when, after evaluation, neither module.exports.main nor
\* exports.main is callable, executeJSCAD fails with the no-main-function error
\* and the mesh compiler is not invoked.
C5_Original ==
    (Executed /\ Evaluated(outcome.promise) /\ NeitherCallable(code)) =>
        LET p == outcome.promise IN
        /\ p.kind = "rejected"
        /\ p.reason = ErrorObj("Error", NoMainMessage)
        /\ \A i \in 1..Len(p.trace) : p.trace[i] # "convert"

\* the names of the root namespace and of its declared sub-namespaces
AllowedNames ==
    { RootName,
      RootName \o <<"/", "primitives">>,
      RootName \o <<"/", "geometries">>,
      RootName \o <<"/", "geometries", "/", "geom3">> }

\* C6 as stated: require returns a namespace for the root name and for the
\* names of its declared sub-namespaces, and for every other name throws the
\* module-not-found error instead of returning a value.
C6_Original ==
    (Executed /\ outcome.promise.required.called) =>
        LET p == outcome.promise IN
        IF code.req \in AllowedNames
        THEN ~p.required.threw /\ p.required.value.kind = "namespace"
        ELSE p.required.threw /\ p.cause = ModuleNotFound(code.req)

\* C14 as stated: when, after evaluation, module.exports.main or exports.main
\* is callable, a callable main is invoked and the failure is not the
\* no-main-function error, whatever the other binding is.
C14_Original ==
    (/\ Executed
     /\ Evaluated(outcome.promise)
     /\ HasFunction(code.moduleExports, code.exportsMain)) =>
        LET p == outcome.promise IN
        /\ \E i \in 1..Len(p.trace) : p.trace[i] = "main"
        /\ p.cause # ErrorObj("Error", NoMainMessage)

\* the steps of one request, in their order
Steps == <<"evaluate", "main", "convert", "fallback">>

StepOrder(s) == CHOOSE i \in 1..Len(Steps) : Steps[i] = s

Count(trace, s) == Cardinality({i \in 1..Len(trace) : trace[i] = s})

\* C15: in one request each step happens at most once and in order: the text
\* is evaluated (once, when it parses), then main is called, then the compiler,
\* only after main returned without throwing, then the fallback generator, only
\* from inside the compiler.
C15_StepsOrderedOnce ==
    Executed =>
        LET p == outcome.promise
            t == p.trace
        IN  /\ \A i \in 1..Len(t) : \E k \in 1..Len(Steps) : t[i] = Steps[k]
            /\ \A k \in 1..Len(Steps) : Count(t, Steps[k]) <= 1
            /\ \A i, j \in 1..Len(t) :
                  i < j => StepOrder(t[i]) < StepOrder(t[j])
            /\ Count(t, "evaluate") = 1 <=> code.parses
            /\ Count(t, "main") = 1 => Count(t, "evaluate") = 1 /\ Evaluated(p)
            /\ Count(t, "convert") = 1 <=>
                  (Count(t, "main") = 1 /\ p.stage = "none" /\ ~code.main.throws)
            /\ Count(t, "fallback") = 1 <=>
                  (Count(t, "convert") = 1 /\ p.fallback)

C15_Witness ==
    /\ Executed
    /\ outcome.promise.trace = Steps
    /\ outcome.promise.kind = "resolved"

(***************************************************************************)
(* Claims on ModelViewer, checked under Spec                               *)
(***************************************************************************)
\* the step is loadModel resuming on the promise at the head of pending
Resumes == pending # <<>> /\ pending' = Tail(pending)

\* C2: a promise is rejected exactly when the sandbox stage failed, and then
\* with the error that stage threw; a failure of mesh compilation resolves
\* with the fallback mesh; and ModelViewer sets its error exactly when it
\* resumes on a rejected promise, to the message of that error.
C2_StagesDistinguished ==
    [][ /\ \A i \in 1..Len(pending) :
              LET p == pending[i] IN
              /\ SandboxFailed(p) <=> p.kind = "rejected"
              /\ p.kind = "rejected" => p.reason = p.cause /\ p.reason # NoThrow
              /\ p.fallback =>
                    p.kind = "resolved" /\ p.value = createFallbackGeometry
        /\ error' # Null =>
              \/ error' = error
              \/ Resumes /\ Head(pending).kind = "rejected"
        /\ (Resumes /\ Head(pending).kind = "rejected") =>
              /\ error' # Null
              /\ error' = ErrorMessage(Head(pending).cause)
              /\ geometry' = Null
        /\ (Resumes /\ Head(pending).kind = "resolved") =>
              /\ error' = error
              /\ geometry' = Head(pending).value
      ]_vars

C2_Witness ==
    /\ model = [code |-> EmptyExportsProgram]
    /\ error = ErrorMessage(ErrorObj("Error", NoMainMessage))
    /\ geometry = Null
    /\ pending = <<>>

\* every conversion started has settled, and a model is set
AllSettled == pending = <<>> /\ model # Null

\* C18 as stated: once the conversions started have settled, the geometry and
\* error state is the outcome of the conversion of the current model, also when
\* the model changed while an earlier conversion was still awaited: the mesh and
\* no error when it resolved, the error message and no mesh when it rejected.
C18_Original ==
    AllSettled =>
        LET p == executeJSCAD(model.code) IN
        IF p.kind = "resolved"
        THEN geometry = p.value /\ error = Null
        ELSE error = ErrorMessage(p.reason) /\ geometry = Null

(***************************************************************************)
(* Claims on a sequence of requests, checked under SessionSpec             *)
(***************************************************************************)
\* what executing the text gives when it is the first program executed
FreshOutcome(sp) ==
    executeJSCAD(Effective(Functions \ Overwritten(sp), sp))

\* C16 as stated: no state survives across requests: the capability table is
\* unchanged by any sequence of program executions, and the outcome of executing
\* a program text is the one it has when executed first, whatever was executed
\* before it.
C16_Original ==
    /\ table = Functions
    /\ session.called => session.promise = FreshOutcome(session.program)

(***************************************************************************)
(* Claims on the chat side, checked under ChatSpec                         *)
(***************************************************************************)
\* the step starts a generateModel call
Starts == Len(inFlight') > Len(inFlight)

\* the step settles a generateModel call
Settles == Len(inFlight') < Len(inFlight)

\* isLoading is false only when no call is in flight, and calls never overlap
LoadingCoversCalls ==
    /\ ~isLoading => inFlight = <<>>
    /\ Len(inFlight) <= 1

\* C19: isLoading is false only when no generateModel call is in flight; a
\* submission while isLoading is true, or of empty or whitespace-only input,
\* starts no call and appends no message, so calls never overlap; and when a call
\* settles, resolved or rejected, isLoading is false again.
C19_LoadingCoversCalls ==
    /\ []LoadingCoversCalls
    /\ [][ /\ (isLoading \/ trim(input) = <<>>) =>
                  /\ ~Starts
                  /\ Settles \/ messages' = messages
           /\ Starts =>
                  /\ isLoading'
                  /\ inFlight' = <<trim(input)>>
           /\ Settles =>
                  /\ ~isLoading'
                  /\ inFlight' = <<>>
         ]_vars

\* a submission of a non-empty text was dropped while a call was in flight,
\* after an earlier call was rejected
C19_Witness ==
    /\ isLoading
    /\ Len(inFlight) = 1
    /\ lastSubmit = "dropped"
    /\ trim(input) # <<>>
    /\ messages = <<"user", "error", "user">>

(***************************************************************************)
(* Claims on LLMService, checked under ServiceSpec                         *)
(***************************************************************************)
\* the provider call fails: no API key, fetch rejects, a non-OK response, a
\* body that is not JSON or has not the expected shape
ProviderFails(req) ==
    /\ req.provider \in RealProviders
    /\ \/ ~req.hasKey
       \/ req.fetch.status # "ok"
       \/ req.fetch.body \notin Contents

AssignsCallableMain(c) ==
    /\ c.source = "simulation"
    /\ ~c.moduleExports.nullish
    /\ c.moduleExports.main = "function"

\* C20: generateModel never rejects.  When the call of the configured provider
\* fails it resolves with the simulation response for the same prompt, as it
\* does when no provider is configured; and the code of every simulation
\* response assigns a callable main to module.exports.
C20_NeverRejects ==
    response.called =>
        LET p == response.promise IN
        /\ p.kind = "resolved"
        /\ p.value # Null
        /\ (ProviderFails(request) \/ request.provider \notin RealProviders) =>
              /\ p.value = simulateResponse(request.prompt)
              /\ AssignsCallableMain(p.value.code)
        /\ ProviderFails(request) <=> p.caught
        /\ \A q \in Prompts : AssignsCallableMain(simulateResponse(q).code)

\* OpenAI answers 200 with a null content; the prompt asks for a donut
C20_Witness ==
    /\ response.called
    /\ request.provider = "openai"
    /\ request.hasKey
    /\ request.fetch = [status |-> "ok", body |-> "nullContent"]
    /\ response.promise.caught
    /\ response.promise.value.code.primitive = "torus"

====
